---- MODULE Spec2Model ----
(***************************************************************************)
(* Resumable paginated fetch engine of the Jira scraper:                   *)
(*   - utils.retry_with_backoff (the Retrying Executor and its backoff),   *)
(*   - JiraScraper._make_request (the Transport),                          *)
(*   - JiraScraper.fetch_issues_page (the Page Fetcher),                   *)
(*   - utils.save_checkpoint / load_checkpoint (the Checkpoint Store),     *)
(*   - JiraScraper.scrape_project (the Partition Scraper),                 *)
(*   - JiraScraper.scrape_all (the Scrape Orchestrator).                   *)
(* Specifications: SpecRetry runs one decorated _make_request call,        *)
(* attempt by attempt; SpecStore calls load_checkpoint and save_checkpoint *)
(* on every document they may find; Spec runs whole processes (construct a *)
(* scraper, scrape_all) over a disk that survives crashes, each fetch in   *)
(* one step; SpecRun runs one process with every fetch taken through the   *)
(* executor one Transport call at a time, and SpecRunLive adds fairness.   *)
(***************************************************************************)
EXTENDS Integers, Sequences, FiniteSets, TLC

VARIABLES
    \* ---- one call of the decorated _make_request (utils.py:98-148) ----
    rpc,            \* "call" | "returned" | "raised"
    attempt,        \* loop variable of `for attempt in range(max_retries + 1)`
    sleeps,         \* the arguments of time.sleep, in order
    rLog,           \* per Transport call: the status_code raised, or Returned
    rKind,          \* per Transport call: which branch of _make_request ended it
    \* ---- the disk ----
    rawFiles,       \* <<project, page>> of every {project}_page_{page}.json
    ckptFile,       \* checkpoints/state.json
    \* ---- the configuration of the scraper (JiraScraper.__init__) ----
    max_results,    \* page size
    cap,            \* max_issues_per_project; NoCap for None
    \* ---- the running process: scrape_all and its scrape_project call ----
    pc,             \* where the process is; "idle" when there is none
    resume,         \* the resume argument of scrape_all
    idx,            \* position of `project` in self.projects (1-based)
    results,        \* the results dict of scrape_all
    start_page,
    first_page_data,
    total_pages,
    page,           \* loop variable of the paging loop
    pages_scraped,
    ret,            \* what scrape_project returned
    \* ---- history of the current scrape_project call ----
    fetchLog,       \* page indices passed to fetch_issues_page, in order
    requestLog,     \* startAt and maxResults of each of these requests
    firstOut,       \* what _make_request did for the first page of the call
    rawAtStart,     \* pages of `project` with an artifact when the call began
    ckptAtStart,    \* checkpoint entry of `project` when the call began
    rawThisRun,     \* pages whose artifact this call wrote
    ckptThisRun,    \* pages this call set the checkpoint to
    tornAtStart,    \* the call follows a stop between write and checkpoint
    \* ---- history of the disk ----
    runs,           \* processes started so far
    torn,           \* projects whose last call was stopped in that window
    everTorn,       \* some process was stopped in that window
    everNoResume,   \* some process ran with resume disabled
    \* ---- a caller of the Checkpoint Store alone ----
    storeOp         \* the last load_checkpoint / save_checkpoint call

retryVars == <<rpc, attempt, sleeps, rLog, rKind>>

diskVars == <<rawFiles, ckptFile>>

configVars == <<max_results, cap>>

procVars ==
    <<pc, resume, idx, results, start_page, first_page_data, total_pages,
      page, pages_scraped, ret>>

callHistVars ==
    <<fetchLog, requestLog, firstOut, rawAtStart, ckptAtStart, rawThisRun, ckptThisRun, tornAtStart>>

diskHistVars == <<runs, torn, everTorn, everNoResume>>

scraperVars ==
    <<diskVars, configVars, procVars, callHistVars, diskHistVars>>

storeVars == <<storeOp>>

vars == <<retryVars, scraperVars, storeVars>>

Min(a, b) == IF a <= b THEN a ELSE b

RECURSIVE Pow(_, _)
Pow(b, n) == IF n = 0 THEN 1 ELSE b * Pow(b, n - 1)

(***************************************************************************)
(* Transport: JiraScraper._make_request                                    *)
(***************************************************************************)

\* HTTP status codes the server may answer with.
StatusCodes == {200, 400, 404, 429, 500, 501, 502, 503, 504}

\* What the body of a response is: empty, not JSON, JSON but no dict, a dict.
Bodies == {"empty", "malformed", "nondict", "dict"}

\* What session.get does: raise a requests exception, or hand back a response.
Responses ==
    {[kind |-> k, status |-> 0, body |-> "empty"] :
        k \in {"timeout", "connection", "request"}}
    \cup {[kind |-> "response", status |-> s, body |-> b] :
        s \in StatusCodes, b \in Bodies}

\* Marks a call of _make_request that returned its dict.
Returned == -1

MakeRequestNondictServerError(resp) ==
    IF resp.kind # "response" THEN 0
    ELSE IF resp.status >= 400 THEN resp.status
    ELSE IF resp.body = "empty" THEN resp.status
    ELSE IF resp.body = "malformed" THEN resp.status
    ELSE IF resp.body = "nondict" THEN 500
    ELSE Returned

\* The status_code of the HTTPErrorWithCode that _make_request raises for a
\* response, or Returned when it returns the parsed dict.
MakeRequest(resp) ==
    IF resp.kind # "response" THEN 0
    ELSE IF resp.status >= 400 THEN resp.status
    ELSE IF resp.body = "empty" THEN resp.status
    ELSE IF resp.body = "malformed" THEN resp.status
    ELSE IF resp.body = "nondict" THEN resp.status
    ELSE Returned

\* The branch of _make_request that ends the call: a requests exception
\* ("network"), status >= 400 ("http_error"), an empty body, a body that is
\* not JSON, JSON that is no dict, or the return of the dict.
RequestBranch(resp) ==
    IF resp.kind # "response" THEN "network"
    ELSE IF resp.status >= 400 THEN "http_error"
    ELSE IF resp.body = "empty" THEN "empty"
    ELSE IF resp.body = "malformed" THEN "malformed"
    ELSE IF resp.body = "nondict" THEN "nondict"
    ELSE "returned"

(***************************************************************************)
(* Retrying Executor: utils.retry_with_backoff, as applied to _make_request*)
(***************************************************************************)

max_retries == 3
initial_delay == 2
exponential_base == 2
max_delay == 60

retryable_errors_all == {0} \cup StatusCodes

retryable_errors == {0, 429, 500, 502, 503, 504}

\* min(initial_delay * (exponential_base ** attempt), max_delay)
ExponentialWait(att) ==
    Min(initial_delay * Pow(exponential_base, att), max_delay)

RateLimitWaitExponential(att) == ExponentialWait(att)

\* The wait of a 429: max_delay, whatever the attempt.
RateLimitWait(att) == max_delay

WaitTimeShifted(status_code, att) ==
    IF status_code = 429 THEN RateLimitWait(att) ELSE ExponentialWait(att + 1)

\* wait_time of the except block, for an exception carrying status_code.
WaitTime(status_code, att) ==
    IF status_code = 429 THEN RateLimitWait(att)
    ELSE IF status_code = 0 THEN ExponentialWait(att)
    ELSE ExponentialWait(att)

\* func returned: the wrapper returns its value.
AttemptReturns ==
    /\ rpc = "call"
    /\ \E resp \in Responses :
        /\ MakeRequest(resp) = Returned
        /\ rLog' = Append(rLog, Returned)
        /\ rKind' = Append(rKind, RequestBranch(resp))
    /\ rpc' = "returned"
    /\ UNCHANGED <<attempt, sleeps, scraperVars, storeVars>>

\* func raised a status code outside retryable_errors: re-raised at once.
AttemptFatal ==
    /\ rpc = "call"
    /\ \E resp \in Responses :
        /\ MakeRequest(resp) # Returned
        /\ MakeRequest(resp) \notin retryable_errors
        /\ rLog' = Append(rLog, MakeRequest(resp))
        /\ rKind' = Append(rKind, RequestBranch(resp))
    /\ rpc' = "raised"
    /\ UNCHANGED <<attempt, sleeps, scraperVars, storeVars>>

\* func raised a retryable status code and attempts are left: sleep, loop.
AttemptRetry ==
    /\ rpc = "call"
    /\ attempt < max_retries
    /\ \E resp \in Responses :
        /\ MakeRequest(resp) # Returned
        /\ MakeRequest(resp) \in retryable_errors
        /\ rLog' = Append(rLog, MakeRequest(resp))
        /\ rKind' = Append(rKind, RequestBranch(resp))
        /\ sleeps' = Append(sleeps, WaitTime(MakeRequest(resp), attempt))
    /\ attempt' = attempt + 1
    /\ UNCHANGED <<rpc, scraperVars, storeVars>>

\* func raised a retryable status code on the last attempt: raise it.
AttemptExhausted ==
    /\ rpc = "call"
    /\ ~(attempt < max_retries)
    /\ \E resp \in Responses :
        /\ MakeRequest(resp) # Returned
        /\ MakeRequest(resp) \in retryable_errors
        /\ rLog' = Append(rLog, MakeRequest(resp))
        /\ rKind' = Append(rKind, RequestBranch(resp))
    /\ rpc' = "raised"
    /\ UNCHANGED <<attempt, sleeps, scraperVars, storeVars>>

RetryInit ==
    /\ rpc = "call"
    /\ attempt = 0
    /\ sleeps = <<>>
    /\ rLog = <<>>
    /\ rKind = <<>>

(***************************************************************************)
(* Bounds of the model                                                     *)
(***************************************************************************)

\* Largest `total` the server reports.
MaxTotal == 3
\* Largest page size configured.
MaxPageSize == 2
\* Largest per-project cap configured.
MaxCap == 2
\* Number of processes started, one after the other.
MaxRuns == 2

(***************************************************************************)
(* Checkpoint Store: utils.load_json, save_checkpoint, load_checkpoint     *)
(***************************************************************************)

\* self.projects
projects == <<"SPARK", "KAFKA">>

Projects == {projects[i] : i \in 1..Len(projects)}

\* `project not in state`: the document has no entry for the project.
NoEntry == -1

\* The document {}.
EmptyState == [p \in Projects |-> NoEntry]

\* The file is missing, text that is not JSON ("corrupt"), bytes that are
\* not UTF-8 text ("undecodable"), or JSON: a dict that maps a project to
\* its last_fetched_page.
MissingFile == [kind |-> "missing", state |-> EmptyState]

\* Marks a call of the Checkpoint Store that raised.
Raises == -2

\* load_json raises: open(..., encoding='utf-8') with json.load raises
\* UnicodeDecodeError for bytes that are not UTF-8, and load_json catches
\* json.JSONDecodeError only.
LoadJsonRaises(file) == file.kind = "undecodable"

\* load_json(...) is None for a missing file and for text that is not JSON.
LoadJsonIsNone(file) == file.kind \in {"missing", "corrupt"}

\* `load_json(checkpoint_file) or {}`
StateOrEmpty(file) ==
    IF LoadJsonIsNone(file) \/ file.state = EmptyState
    THEN EmptyState
    ELSE file.state

SaveCheckpointNext(file, project, last_page) ==
    [kind |-> "json",
     state |-> [StateOrEmpty(file) EXCEPT ![project] = last_page + 1]]

\* save_checkpoint: read the document, set the project's entry, write it all.
SaveCheckpoint(file, project, last_page) ==
    [kind |-> "json",
     state |-> [StateOrEmpty(file) EXCEPT ![project] = last_page]]

LoadCheckpointZero(file, project) == 0

\* load_checkpoint: `if state and project in state` ... else 0.
LoadCheckpoint(file, project) ==
    IF LoadJsonRaises(file) THEN Raises
    ELSE IF /\ ~LoadJsonIsNone(file)
       /\ file.state # EmptyState
       /\ file.state[project] # NoEntry
    THEN file.state[project]
    ELSE 0

\* A caller of the Checkpoint Store alone: the documents it may find on
\* disk, and one action per operation of the store. The state of a
\* document that cannot be read is what is written in it (a document
\* with a stray character after a hand edit still shows every entry).
Entries == {NoEntry} \cup 0..MaxTotal

StoreFiles ==
    {MissingFile}
    \cup {[kind |-> k, state |-> st] :
            k \in {"corrupt", "undecodable", "json"},
            st \in [Projects -> Entries]}

NoOp ==
    [op |-> "none", project |-> projects[1], page |-> 0, before |-> MissingFile,
     result |-> 0]

\* load_checkpoint(p, checkpoint_file)
StoreLoad ==
    /\ \E p \in Projects :
        storeOp' = [op |-> "load", project |-> p, page |-> 0,
                    before |-> ckptFile,
                    result |-> LoadCheckpoint(ckptFile, p)]
    /\ UNCHANGED <<retryVars, scraperVars>>

\* save_checkpoint(p, last_page, checkpoint_file): raises, leaving the
\* file, when load_json raises.
StoreSave ==
    /\ \E p \in Projects, last_page \in 0..MaxTotal :
        /\ ckptFile' = IF LoadJsonRaises(ckptFile)
                       THEN ckptFile
                       ELSE SaveCheckpoint(ckptFile, p, last_page)
        /\ storeOp' = [op |-> "save", project |-> p, page |-> last_page,
                       before |-> ckptFile,
                       result |-> IF LoadJsonRaises(ckptFile)
                                  THEN Raises ELSE 0]
    /\ UNCHANGED <<retryVars, rawFiles, configVars, procVars, callHistVars,
                   diskHistVars>>

(***************************************************************************)
(* Page Fetcher: JiraScraper.fetch_issues_page                             *)
(***************************************************************************)

\* The envelope has no 'total' key.
NoTotal == -1

None == [kind |-> "None", issues |-> "absent", total |-> NoTotal]

\* What self._make_request(url, params) does: raise (a fatal failure, or the
\* retries exhausted), or return a dict. Of the dict: whether 'issues' is a
\* list, something else or absent, and the value of 'total'.
ExecutorOutcomes ==
    {[kind |-> "raise", issues |-> "absent", total |-> NoTotal]}
    \cup {[kind |-> "dict", issues |-> i, total |-> t] :
            i \in {"list", "other", "absent"}, t \in {NoTotal} \cup 0..MaxTotal}

FetchIssuesPageStrict(out) ==
    IF out.kind = "raise" THEN None
    ELSE IF out.issues # "list" THEN None
    ELSE out

FetchIssuesPageNoCatch(out) ==
    IF out.kind = "raise" THEN out
    ELSE IF out.issues = "absent"
         THEN IF out.total # NoTotal /\ out.total = 0 THEN out ELSE None
    ELSE IF out.issues # "list" THEN None
    ELSE out

FetchIssuesPageZeroTotal(out) ==
    IF out.kind = "raise" THEN None
    ELSE IF out.issues # "list"
         THEN IF out.total # NoTotal /\ out.total = 0 THEN out ELSE None
    ELSE out

\* fetch_issues_page: the dict, or None on any failure.
FetchIssuesPage(out) ==
    IF out.kind = "raise" THEN None
    ELSE IF out.issues = "absent"
         THEN IF out.total # NoTotal /\ out.total = 0 THEN out ELSE None
    ELSE IF out.issues # "list" THEN None
    ELSE out

TruthyAlways(data) == TRUE

\* `if not first_page_data` / `if page_data`: None is falsy; a dict that
\* fetch_issues_page returns has a key, so it is truthy.
Truthy(data) == data.kind # "None"

(***************************************************************************)
(* Partition Scraper: JiraScraper.scrape_project                           *)
(***************************************************************************)

\* max_issues_per_project is None (or 0, which `if self.max_issues_per_project`
\* treats alike).
NoCap == 0

\* first_page_data.get('total', 0)
GetTotal(data) == IF data.total = NoTotal THEN 0 ELSE data.total

TotalIssuesUnclamped(data, c) == GetTotal(data)

\* total_issues, after the limit is applied.
TotalIssues(data, c) ==
    IF c # NoCap /\ GetTotal(data) > c THEN c ELSE GetTotal(data)

TotalPagesFloor(total_issues, size) == total_issues \div size

\* (total_issues + self.max_results - 1) // self.max_results
TotalPages(total_issues, size) == (total_issues + size - 1) \div size

SaveRawResponseNextPage(files, project, p) == files \cup {<<project, p + 1>>}

SaveRawResponseSkipped(files, project, p) == files

\* save_raw_response: write {project}_page_{page}.json.
SaveRawResponse(files, project, p) == files \cup {<<project, p>>}

\* The project scrape_all is at.
project == projects[idx]

\* Pages of a project that have an artifact on disk.
PagesOf(files, proj) == {p \in 0..(MaxTotal + 1) : <<proj, p>> \in files}

NoResults == [p \in Projects |-> NoEntry]

StartAtIndex(page_index, size) == page_index

\* start_at = page * self.max_results (start_page * self.max_results for
\* the first page).
StartAt(page_index, size) == page_index * size

\* The params of the request of fetch_issues_page(project, start_at).
Request(start_at) == [startAt |-> start_at, maxResults |-> max_results]

\* The locals of scrape_project before the call assigns them.
LocalsInit ==
    /\ start_page = 0
    /\ first_page_data = None
    /\ total_pages = 0
    /\ page = 0
    /\ pages_scraped = 0
    /\ ret = 0
    /\ fetchLog = <<>>
    /\ requestLog = <<>>
    /\ firstOut = None
    /\ rawAtStart = {}
    /\ ckptAtStart = NoEntry
    /\ rawThisRun = {}
    /\ ckptThisRun = {}
    /\ tornAtStart = FALSE

LocalsReset ==
    /\ start_page' = 0
    /\ first_page_data' = None
    /\ total_pages' = 0
    /\ page' = 0
    /\ pages_scraped' = 0
    /\ ret' = 0
    /\ fetchLog' = <<>>
    /\ requestLog' = <<>>
    /\ firstOut' = None
    /\ rawAtStart' = {}
    /\ ckptAtStart' = NoEntry
    /\ rawThisRun' = {}
    /\ ckptThisRun' = {}
    /\ tornAtStart' = FALSE

\* main(): construct the scraper and call scrape_all(resume).
StartProcess ==
    /\ pc = "idle"
    /\ runs < MaxRuns
    /\ runs' = runs + 1
    /\ \E r \in BOOLEAN :
        /\ resume' = r
        /\ everNoResume' = (everNoResume \/ ~r)
    /\ cap' \in {NoCap} \cup 1..MaxCap
    /\ idx' = 1
    /\ results' = NoResults
    /\ pc' = "scrape_project"
    /\ LocalsReset
    /\ UNCHANGED <<retryVars, storeVars, diskVars, max_results, torn, everTorn>>

ScrapeProjectFirstPageMarksAbort ==
    /\ pc = "scrape_project"
    /\ LET sp == IF resume THEN LoadCheckpoint(ckptFile, project) ELSE 0
       IN /\ start_page' = sp
          /\ fetchLog' = <<sp>>
          /\ requestLog' = <<Request(StartAt(sp, max_results))>>
          /\ \E out \in ExecutorOutcomes :
                LET data == FetchIssuesPage(out)
                IN /\ firstOut' = out
                   /\ first_page_data' = data
                   /\ IF ~Truthy(data)
                      THEN /\ ret' = 0
                           /\ total_pages' = 0
                           /\ pc' = "sp_returned"
                           /\ ckptFile' = SaveCheckpoint(ckptFile, project, sp)
                      ELSE /\ ret' = 0
                           /\ ckptFile' = ckptFile
                           /\ total_pages' =
                                TotalPages(TotalIssues(data, cap), max_results)
                           /\ pc' = "save_first_raw"
    /\ page' = 0
    /\ pages_scraped' = 0
    /\ rawAtStart' = PagesOf(rawFiles, project)
    /\ ckptAtStart' = StateOrEmpty(ckptFile)[project]
    /\ rawThisRun' = {}
    /\ ckptThisRun' = {}
    /\ tornAtStart' = (project \in torn)
    /\ torn' = torn \ {project}
    /\ UNCHANGED <<retryVars, storeVars, rawFiles, configVars, resume, idx, results,
                   runs, everTorn, everNoResume>>

\* scrape_project up to the first page: resolve the start page, fetch it,
\* return 0 when that fails, else compute total_pages.
ScrapeProjectFirstPage ==
    /\ pc = "scrape_project"
    /\ LET sp == IF resume THEN LoadCheckpoint(ckptFile, project) ELSE 0
       IN /\ start_page' = sp
          /\ fetchLog' = <<sp>>
          /\ requestLog' = <<Request(StartAt(sp, max_results))>>
          /\ \E out \in ExecutorOutcomes :
                LET data == FetchIssuesPage(out)
                IN /\ firstOut' = out
                   /\ first_page_data' = data
                   /\ IF ~Truthy(data)
                      THEN /\ ret' = 0
                           /\ total_pages' = 0
                           /\ pc' = "sp_returned"
                      ELSE /\ ret' = 0
                           /\ total_pages' =
                                TotalPages(TotalIssues(data, cap), max_results)
                           /\ pc' = "save_first_raw"
    /\ page' = 0
    /\ pages_scraped' = 0
    /\ rawAtStart' = PagesOf(rawFiles, project)
    /\ ckptAtStart' = StateOrEmpty(ckptFile)[project]
    /\ rawThisRun' = {}
    /\ ckptThisRun' = {}
    /\ tornAtStart' = (project \in torn)
    /\ torn' = torn \ {project}
    /\ UNCHANGED <<retryVars, storeVars, diskVars, configVars, resume, idx, results,
                   runs, everTorn, everNoResume>>

\* self.save_raw_response(project, start_page, first_page_data)
SaveFirstRaw ==
    /\ pc = "save_first_raw"
    /\ rawFiles' = SaveRawResponse(rawFiles, project, start_page)
    /\ rawThisRun' = rawThisRun \cup {start_page}
    /\ pc' = "save_first_ckpt"
    /\ UNCHANGED <<retryVars, storeVars, ckptFile, configVars, resume, idx, results,
                   start_page, first_page_data, total_pages, page,
                   pages_scraped, ret, fetchLog, requestLog, firstOut, rawAtStart,
                   ckptAtStart, ckptThisRun, tornAtStart, diskHistVars>>

SaveFirstCheckpointNoCount ==
    /\ pc = "save_first_ckpt"
    /\ ckptFile' = SaveCheckpoint(ckptFile, project, start_page)
    /\ ckptThisRun' = ckptThisRun \cup {start_page}
    /\ pages_scraped' = 0
    /\ page' = start_page + 1
    /\ pc' = "paging"
    /\ UNCHANGED <<retryVars, storeVars, rawFiles, configVars, resume, idx, results,
                   start_page, first_page_data, total_pages, ret, fetchLog, requestLog,
                   firstOut, rawAtStart, ckptAtStart, rawThisRun,
                   tornAtStart, diskHistVars>>

\* save_checkpoint(project, start_page, ...); pages_scraped = 1; the loop
\* variable starts at start_page + 1.
SaveFirstCheckpoint ==
    /\ pc = "save_first_ckpt"
    /\ ckptFile' = SaveCheckpoint(ckptFile, project, start_page)
    /\ ckptThisRun' = ckptThisRun \cup {start_page}
    /\ pages_scraped' = 1
    /\ page' = start_page + 1
    /\ pc' = "paging"
    /\ UNCHANGED <<retryVars, storeVars, rawFiles, configVars, resume, idx, results,
                   start_page, first_page_data, total_pages, ret, fetchLog, requestLog,
                   firstOut, rawAtStart, ckptAtStart, rawThisRun,
                   tornAtStart, diskHistVars>>

PageFetchedPastEnd ==
    /\ pc = "paging"
    /\ page <= MaxTotal
    /\ \E out \in ExecutorOutcomes : Truthy(FetchIssuesPage(out))
    /\ fetchLog' = Append(fetchLog, page)
    /\ requestLog' =
            Append(requestLog, Request(StartAt(page, max_results)))
    /\ pc' = "save_raw"
    /\ UNCHANGED <<retryVars, storeVars, diskVars, configVars, resume, idx, results,
                   start_page, first_page_data, total_pages, page,
                   pages_scraped, ret, firstOut, rawAtStart, ckptAtStart,
                   rawThisRun, ckptThisRun, tornAtStart, diskHistVars>>

\* One iteration of `for page in range(start_page + 1, total_pages)` whose
\* fetch succeeds.
PageFetched ==
    /\ pc = "paging"
    /\ page < total_pages
    /\ \E out \in ExecutorOutcomes : Truthy(FetchIssuesPage(out))
    /\ fetchLog' = Append(fetchLog, page)
    /\ requestLog' =
            Append(requestLog, Request(StartAt(page, max_results)))
    /\ pc' = "save_raw"
    /\ UNCHANGED <<retryVars, storeVars, diskVars, configVars, resume, idx, results,
                   start_page, first_page_data, total_pages, page,
                   pages_scraped, ret, firstOut, rawAtStart, ckptAtStart,
                   rawThisRun, ckptThisRun, tornAtStart, diskHistVars>>

PageFailedContinue ==
    /\ pc = "paging"
    /\ page < total_pages
    /\ \E out \in ExecutorOutcomes : ~Truthy(FetchIssuesPage(out))
    /\ fetchLog' = Append(fetchLog, page)
    /\ requestLog' =
            Append(requestLog, Request(StartAt(page, max_results)))
    /\ page' = page + 1
    /\ UNCHANGED <<retryVars, storeVars, diskVars, configVars, pc, resume, idx, results,
                   start_page, first_page_data, total_pages, ret,
                   pages_scraped, firstOut, rawAtStart, ckptAtStart,
                   rawThisRun, ckptThisRun, tornAtStart, diskHistVars>>

\* An iteration whose fetch fails: break, return pages_scraped.
PageFailed ==
    /\ pc = "paging"
    /\ page < total_pages
    /\ \E out \in ExecutorOutcomes : ~Truthy(FetchIssuesPage(out))
    /\ fetchLog' = Append(fetchLog, page)
    /\ requestLog' =
            Append(requestLog, Request(StartAt(page, max_results)))
    /\ ret' = pages_scraped
    /\ pc' = "sp_returned"
    /\ UNCHANGED <<retryVars, storeVars, diskVars, configVars, resume, idx, results,
                   start_page, first_page_data, total_pages, page,
                   pages_scraped, firstOut, rawAtStart, ckptAtStart,
                   rawThisRun, ckptThisRun, tornAtStart, diskHistVars>>

\* The range is exhausted: return pages_scraped.
PagingDone ==
    /\ pc = "paging"
    /\ ~(page < total_pages)
    /\ ret' = pages_scraped
    /\ pc' = "sp_returned"
    /\ UNCHANGED <<retryVars, storeVars, diskVars, configVars, resume, idx, results,
                   start_page, first_page_data, total_pages, page,
                   pages_scraped, fetchLog, requestLog, firstOut, rawAtStart,
                   ckptAtStart, rawThisRun, ckptThisRun, tornAtStart,
                   diskHistVars>>

\* self.save_raw_response(project, page, page_data)
SaveRaw ==
    /\ pc = "save_raw"
    /\ rawFiles' = SaveRawResponse(rawFiles, project, page)
    /\ rawThisRun' = rawThisRun \cup {page}
    /\ pc' = "save_ckpt"
    /\ UNCHANGED <<retryVars, storeVars, ckptFile, configVars, resume, idx, results,
                   start_page, first_page_data, total_pages, page,
                   pages_scraped, ret, fetchLog, requestLog, firstOut, rawAtStart,
                   ckptAtStart, ckptThisRun, tornAtStart, diskHistVars>>

\* save_checkpoint(project, page, ...); pages_scraped += 1; next iteration.
SavePageCheckpoint ==
    /\ pc = "save_ckpt"
    /\ ckptFile' = SaveCheckpoint(ckptFile, project, page)
    /\ ckptThisRun' = ckptThisRun \cup {page}
    /\ pages_scraped' = pages_scraped + 1
    /\ page' = page + 1
    /\ pc' = "paging"
    /\ UNCHANGED <<retryVars, storeVars, rawFiles, configVars, resume, idx, results,
                   start_page, first_page_data, total_pages, ret, fetchLog, requestLog,
                   firstOut, rawAtStart, ckptAtStart, rawThisRun,
                   tornAtStart, diskHistVars>>

\* The raw payload of a page is written and its checkpoint is not.
InWindow == pc \in {"save_first_ckpt", "save_ckpt"}

\* The call of scrape_project ends inside that window.
StoppedInWindow ==
    /\ torn' = IF InWindow THEN torn \cup {project} ELSE torn
    /\ everTorn' = (everTorn \/ InWindow)

\* save_raw_response raises an I/O error (save_json cannot open the file):
\* nothing is written and the exception leaves scrape_project.
RawWriteFails ==
    /\ pc \in {"save_first_raw", "save_raw"}
    /\ pc' = "sp_raised"
    /\ UNCHANGED <<retryVars, storeVars, diskVars, configVars, resume, idx, results,
                   start_page, first_page_data, total_pages, page,
                   pages_scraped, ret, callHistVars, diskHistVars>>

\* save_checkpoint raises an I/O error (save_json cannot open the file):
\* the document is left as it was and the exception leaves scrape_project.
CheckpointWriteFails ==
    /\ pc \in {"save_first_ckpt", "save_ckpt"}
    /\ pc' = "sp_raised"
    /\ StoppedInWindow
    /\ UNCHANGED <<retryVars, storeVars, diskVars, configVars, resume, idx, results,
                   start_page, first_page_data, total_pages, page,
                   pages_scraped, ret, callHistVars, runs, everNoResume>>

(***************************************************************************)
(* Scrape Orchestrator: JiraScraper.scrape_all                             *)
(***************************************************************************)

\* results[project] = pages (the frame of scrape_project is gone), then on to
\* the next project or `return results`.
RecordResult ==
    /\ pc = "sp_returned"
    /\ results' = [results EXCEPT ![project] = ret]
    /\ IF idx < Len(projects)
       THEN /\ idx' = idx + 1
            /\ pc' = "scrape_project"
       ELSE /\ idx' = idx
            /\ pc' = "returned"
    /\ LocalsReset
    /\ UNCHANGED <<retryVars, storeVars, diskVars, configVars, resume, diskHistVars>>

RecordExceptionStops ==
    /\ pc = "sp_raised"
    /\ results' = [results EXCEPT ![project] = 0]
    /\ idx' = idx
    /\ pc' = "returned"
    /\ LocalsReset
    /\ UNCHANGED <<retryVars, storeVars, diskVars, configVars, resume, diskHistVars>>

\* `except Exception`: the exception that left scrape_project is logged,
\* results[project] = 0, then on to the next project or `return results`.
RecordException ==
    /\ pc = "sp_raised"
    /\ results' = [results EXCEPT ![project] = 0]
    /\ IF idx < Len(projects)
       THEN /\ idx' = idx + 1
            /\ pc' = "scrape_project"
       ELSE /\ idx' = idx
            /\ pc' = "returned"
    /\ LocalsReset
    /\ UNCHANGED <<retryVars, storeVars, diskVars, configVars, resume, diskHistVars>>

\* The process is inside the scrape_project call of scrape_all.
InScrapeProject ==
    pc \in {"scrape_project", "save_first_raw", "save_first_ckpt", "paging",
            "save_raw", "save_ckpt"}

InterruptRecords ==
    /\ InScrapeProject
    /\ pc' = "returned"
    /\ results' = [results EXCEPT ![project] = 0]
    /\ StoppedInWindow
    /\ LocalsReset
    /\ UNCHANGED <<retryVars, storeVars, diskVars, configVars, resume, idx, runs,
                   everNoResume>>

\* KeyboardInterrupt inside scrape_project: its frame is unwound, scrape_all
\* breaks out of its loop and returns the results so far.
Interrupt ==
    /\ InScrapeProject
    /\ pc' = "returned"
    /\ StoppedInWindow
    /\ LocalsReset
    /\ UNCHANGED <<retryVars, storeVars, diskVars, configVars, resume, idx, results,
                   runs, everNoResume>>

\* The process is killed: only the disk is left (the next process sets its
\* own resume flag and cap).
Crash ==
    /\ InScrapeProject \/ pc \in {"sp_returned", "sp_raised"}
    /\ pc' = "idle"
    /\ StoppedInWindow
    /\ idx' = 1
    /\ results' = NoResults
    /\ LocalsReset
    /\ resume' = TRUE
    /\ cap' = NoCap
    /\ UNCHANGED <<retryVars, storeVars, diskVars, max_results, runs, everNoResume>>

\* scrape_all has returned; main() logs the results and the process ends.
ProcessExit ==
    /\ pc = "returned"
    /\ pc' = "idle"
    /\ idx' = 1
    /\ results' = NoResults
    /\ LocalsReset
    /\ resume' = TRUE
    /\ cap' = NoCap
    /\ UNCHANGED <<retryVars, storeVars, diskVars, max_results, diskHistVars>>

ScraperInit ==
    /\ rawFiles = {}
    /\ ckptFile = MissingFile
    /\ max_results \in 1..MaxPageSize
    /\ cap = NoCap
    /\ pc = "idle"
    /\ resume = TRUE
    /\ idx = 1
    /\ results = NoResults
    /\ LocalsInit
    /\ runs = 0
    /\ torn = {}
    /\ everTorn = FALSE
    /\ everNoResume = FALSE
    /\ storeOp = NoOp

(***************************************************************************)
(* One process with every fetch run through the Retrying Executor, one     *)
(* Transport call at a time                                                *)
(***************************************************************************)

\* scrape_project up to the call of fetch_issues_page for the first page:
\* resolve the start page; the decorated _make_request is entered.
ResolveStartPage ==
    /\ pc = "scrape_project"
    /\ LET sp == IF resume THEN LoadCheckpoint(ckptFile, project) ELSE 0
       IN /\ start_page' = sp
          /\ fetchLog' = <<sp>>
          /\ requestLog' = <<Request(StartAt(sp, max_results))>>
    /\ page' = 0
    /\ pages_scraped' = 0
    /\ rawAtStart' = PagesOf(rawFiles, project)
    /\ ckptAtStart' = StateOrEmpty(ckptFile)[project]
    /\ rawThisRun' = {}
    /\ ckptThisRun' = {}
    /\ tornAtStart' = (project \in torn)
    /\ torn' = torn \ {project}
    /\ pc' = "fetch_first"
    /\ UNCHANGED <<retryVars, storeVars, diskVars, configVars, resume, idx,
                   results, first_page_data, total_pages, ret, firstOut,
                   runs, everTorn, everNoResume>>

TransportAttemptOneMore ==
    /\ pc \in {"fetch_first", "fetch_page"}
    /\ rpc = "call"
    /\ \E status_code \in {MakeRequest(resp) : resp \in Responses} :
            IF status_code = Returned
            THEN rpc' = "returned" /\ attempt' = attempt
            ELSE IF status_code \notin retryable_errors
            THEN rpc' = "raised" /\ attempt' = attempt
            ELSE IF attempt <= max_retries
            THEN rpc' = rpc /\ attempt' = attempt + 1
            ELSE rpc' = "raised" /\ attempt' = attempt
    /\ UNCHANGED <<sleeps, rLog, rKind, scraperVars, storeVars>>

\* One iteration of `for attempt in range(max_retries + 1)` of the wrapper:
\* _make_request is called once; the wrapper returns, re-raises a status
\* code that is not retryable, sleeps and loops, or raises the last
\* exception when the attempts are used up.
TransportAttempt ==
    /\ pc \in {"fetch_first", "fetch_page"}
    /\ rpc = "call"
    /\ \E status_code \in {MakeRequest(resp) : resp \in Responses} :
            IF status_code = Returned
            THEN rpc' = "returned" /\ attempt' = attempt
            ELSE IF status_code \notin retryable_errors
            THEN rpc' = "raised" /\ attempt' = attempt
            ELSE IF attempt < max_retries
            THEN rpc' = rpc /\ attempt' = attempt + 1
            ELSE rpc' = "raised" /\ attempt' = attempt
    /\ UNCHANGED <<sleeps, rLog, rKind, scraperVars, storeVars>>

\* What the ended call of the decorated _make_request hands to
\* fetch_issues_page: the exception, or a dict.
ExecutorOutcomeOf(state) ==
    {out \in ExecutorOutcomes : (out.kind = "raise") <=> (state = "raised")}

\* The first fetch_issues_page has ended: return 0 when it failed, else
\* compute total_pages.
FirstPageOutcome ==
    /\ pc = "fetch_first"
    /\ rpc # "call"
    /\ \E out \in ExecutorOutcomeOf(rpc) :
        LET data == FetchIssuesPage(out)
        IN /\ firstOut' = out
           /\ first_page_data' = data
           /\ IF ~Truthy(data)
              THEN /\ ret' = 0
                   /\ total_pages' = 0
                   /\ pc' = "sp_returned"
              ELSE /\ ret' = 0
                   /\ total_pages' =
                        TotalPages(TotalIssues(data, cap), max_results)
                   /\ pc' = "save_first_raw"
    /\ rpc' = "call"
    /\ attempt' = 0
    /\ UNCHANGED <<sleeps, rLog, rKind, storeVars, diskVars, configVars,
                   resume, idx, results, start_page, page, pages_scraped,
                   fetchLog, requestLog, rawAtStart, ckptAtStart, rawThisRun,
                   ckptThisRun, tornAtStart, diskHistVars>>

\* An iteration of `for page in range(start_page + 1, total_pages)` calls
\* fetch_issues_page for page.
NextPageRequested ==
    /\ pc = "paging"
    /\ page < total_pages
    /\ fetchLog' = Append(fetchLog, page)
    /\ requestLog' =
            Append(requestLog, Request(StartAt(page, max_results)))
    /\ pc' = "fetch_page"
    /\ UNCHANGED <<retryVars, storeVars, diskVars, configVars, resume, idx,
                   results, start_page, first_page_data, total_pages, page,
                   pages_scraped, ret, firstOut, rawAtStart, ckptAtStart,
                   rawThisRun, ckptThisRun, tornAtStart, diskHistVars>>

PageOutcomeRefetch ==
    /\ pc = "fetch_page"
    /\ rpc # "call"
    /\ \E out \in ExecutorOutcomeOf(rpc) :
        IF Truthy(FetchIssuesPage(out))
        THEN pc' = "save_raw"
        ELSE pc' = "paging"
    /\ rpc' = "call"
    /\ attempt' = 0
    /\ UNCHANGED <<sleeps, rLog, rKind, storeVars, diskVars, configVars,
                   resume, idx, results, start_page, first_page_data,
                   total_pages, page, pages_scraped, ret, fetchLog, requestLog, firstOut,
                   rawAtStart, ckptAtStart, rawThisRun, ckptThisRun,
                   tornAtStart, diskHistVars>>

\* The fetch_issues_page of a loop iteration has ended: go on to the
\* writes, or break and return pages_scraped.
PageOutcome ==
    /\ pc = "fetch_page"
    /\ rpc # "call"
    /\ \E out \in ExecutorOutcomeOf(rpc) :
        IF Truthy(FetchIssuesPage(out))
        THEN /\ pc' = "save_raw"
             /\ ret' = ret
        ELSE /\ pc' = "sp_returned"
             /\ ret' = pages_scraped
    /\ rpc' = "call"
    /\ attempt' = 0
    /\ UNCHANGED <<sleeps, rLog, rKind, storeVars, diskVars, configVars,
                   resume, idx, results, start_page, first_page_data,
                   total_pages, page, pages_scraped, fetchLog, requestLog, firstOut,
                   rawAtStart, ckptAtStart, rawThisRun, ckptThisRun,
                   tornAtStart, diskHistVars>>

(***************************************************************************)
(* Specifications                                                          *)
(***************************************************************************)

InitRetry == RetryInit /\ ScraperInit

NextRetry ==
    \/ AttemptReturns
    \/ AttemptFatal
    \/ AttemptRetry
    \/ AttemptExhausted

SpecRetry == InitRetry /\ [][NextRetry]_vars

\* The Checkpoint Store alone, over every document it may find.
InitStore ==
    /\ RetryInit
    /\ rawFiles = {}
    /\ ckptFile \in StoreFiles
    /\ max_results = 1
    /\ cap = NoCap
    /\ pc = "idle"
    /\ resume = TRUE
    /\ idx = 1
    /\ results = NoResults
    /\ LocalsInit
    /\ runs = 0
    /\ torn = {}
    /\ everTorn = FALSE
    /\ everNoResume = FALSE
    /\ storeOp = NoOp

NextStore ==
    \/ StoreLoad
    \/ StoreSave

SpecStore == InitStore /\ [][NextStore]_vars

Init == RetryInit /\ ScraperInit

Next ==
    \/ StartProcess
    \/ ScrapeProjectFirstPage
    \/ SaveFirstRaw
    \/ SaveFirstCheckpoint
    \/ PageFetched
    \/ PageFailed
    \/ PagingDone
    \/ SaveRaw
    \/ SavePageCheckpoint
    \/ RawWriteFails
    \/ CheckpointWriteFails
    \/ RecordResult
    \/ RecordException
    \/ Interrupt
    \/ Crash
    \/ ProcessExit

Spec == Init /\ [][Next]_vars

\* Processes that are neither interrupted nor killed, with every fetch
\* run through the executor.
NextRun ==
    \/ StartProcess
    \/ ResolveStartPage
    \/ TransportAttempt
    \/ FirstPageOutcome
    \/ SaveFirstRaw
    \/ SaveFirstCheckpoint
    \/ NextPageRequested
    \/ PageOutcome
    \/ PagingDone
    \/ SaveRaw
    \/ SavePageCheckpoint
    \/ RawWriteFails
    \/ CheckpointWriteFails
    \/ RecordResult
    \/ RecordException
    \/ ProcessExit

\* What earlier processes left on disk: for each project nothing, or the
\* artifacts of pages 0..c and the checkpoint entry c.
DiskLeft(done) ==
    /\ rawFiles = {f \in Projects \X (0..MaxTotal) : f[2] <= done[f[1]]}
    /\ ckptFile = IF done = EmptyState
                  THEN MissingFile
                  ELSE [kind |-> "json", state |-> done]

\* One process over such a disk, with page size 1 (the total the server
\* reports is then the number of pages).
InitRun ==
    /\ RetryInit
    /\ \E done \in [Projects -> {NoEntry} \cup 0..(MaxTotal - 1)] :
            DiskLeft(done)
    /\ max_results = 1
    /\ cap = NoCap
    /\ pc = "idle"
    /\ resume = TRUE
    /\ idx = 1
    /\ results = NoResults
    /\ LocalsInit
    /\ runs = MaxRuns - 1
    /\ torn = {}
    /\ everTorn = FALSE
    /\ everNoResume = FALSE
    /\ storeOp = NoOp

SpecRun == InitRun /\ [][NextRun]_vars

\* The process is single-threaded and every Transport call, sleep and
\* write comes back: a step that is possible is taken.
SpecRunLive == SpecRun /\ WF_vars(NextRun)

(***************************************************************************)
(* Claims about the Retrying Executor (checked under SpecRetry)            *)
(***************************************************************************)

\* Every Transport call made so far raised a status code in S.
EveryCallRaised(S) ==
    /\ rLog # <<>>
    /\ \A i \in 1..Len(rLog) : rLog[i] \in S

\* C5. Retry exhaustion: when every Transport call fails with a server-error
\* status (the 5xx codes of the executor's server-error branch: 500, 502, 503,
\* 504), the call never returns, the Transport is invoked exactly R+1 = 4 times
\* before the failure is raised, there are exactly R = 3 sleeps, the i-th
\* (i = 0..R-1) of min(initial_delay * base^i, max_delay) = min(2 * 2^i, 60),
\* and no sleep follows the final attempt.
C5_RetryExhaustion ==
    EveryCallRaised({500, 502, 503, 504}) =>
        /\ rpc # "returned"
        /\ Len(rLog) <= 3 + 1
        /\ (rpc = "raised" <=> Len(rLog) = 3 + 1)
        /\ Len(sleeps) = Min(Len(rLog), 3)
        /\ \A i \in 1..Len(sleeps) : sleeps[i] = Min(2 * 2^(i - 1), 60)

C5_Witness ==
    /\ rpc = "raised"
    /\ rLog = <<500, 503, 502, 504>>
    /\ sleeps = <<2, 4, 8>>

\* C6. Rate limiting: the wait that follows a 429 failure is the configured
\* maximum delay (60) at every attempt number, and the number of retries
\* (sleeps) never exceeds R = 3, so the Transport is called at most 4 times.
C6_RateLimitFixedWait ==
    /\ \A i \in 1..Len(sleeps) : rLog[i] = 429 => sleeps[i] = 60
    /\ Len(sleeps) <= 3
    /\ Len(rLog) <= 3 + 1
    /\ (EveryCallRaised({429}) /\ rpc = "raised") => Len(sleeps) = 3

C6_Witness ==
    /\ rpc = "raised"
    /\ rLog = <<429, 429, 429, 429>>
    /\ sleeps = <<60, 60, 60>>

\* C7. Fatal short-circuit: when the first Transport call answers an HTTP 4xx
\* status other than 429, the executor raises after exactly one Transport
\* invocation and zero sleeps.
C7_FatalShortCircuit ==
    (rLog # <<>> /\ rLog[1] \in 400..499 /\ rLog[1] # 429) =>
        /\ rpc = "raised"
        /\ Len(rLog) = 1
        /\ sleeps = <<>>

C7_Witness ==
    /\ rpc = "raised"
    /\ rLog = <<404>>
    /\ sleeps = <<>>

(***************************************************************************)
(* Claims about the Partition Scraper and the Checkpoint Store             *)
(* (checked under Spec)                                                    *)
(***************************************************************************)

\* The largest element of a non-empty set of integers.
MaxOf(S) == CHOOSE x \in S : \A y \in S : y <= x

\* ceil(t / size), from its definition.
CeilDiv(t, size) == CHOOSE n \in 0..(t + 1) : n * size >= t /\ (n - 1) * size < t

\* Pages passed to fetch_issues_page so far in the current call.
Fetched == {fetchLog[i] : i \in 1..Len(fetchLog)}

\* Fetched pages whose artifact existed before the call began.
Refetched == Fetched \cap rawAtStart

\* The checkpoint entry of a project (NoEntry when there is none).
Entry(proj) == StateOrEmpty(ckptFile)[proj]

\* The call fetches pages in increasing order, one by one, and starts no
\* later than the first page that has no artifact yet.
NoPageSkipped ==
    /\ \A i \in 2..Len(fetchLog) : fetchLog[i] = fetchLog[i - 1] + 1
    /\ \A p \in 0..(fetchLog[1] - 1) : p \in rawAtStart

\* C1. Resume idempotence: when pages 0..k of a project are persisted (raw
\* artifact and checkpoint, the checkpoint at k) and a scrape_project call
\* with resume enabled follows, the call fetches only pages from the
\* checkpointed index onward, fetches no page that was already persisted,
\* and skips no page.
C1_ResumeIdempotence ==
    (/\ fetchLog # <<>>
     /\ resume
     /\ ~tornAtStart
     /\ ckptAtStart # NoEntry
     /\ rawAtStart = 0..ckptAtStart) =>
        /\ \A p \in Fetched : p >= ckptAtStart
        /\ Refetched = {}
        /\ NoPageSkipped

\* The last_fetched_page of a project is the highest page index that has a
\* raw artifact (and there is no entry exactly when there is no artifact).
CheckpointMatchesRaw(proj) ==
    IF PagesOf(rawFiles, proj) = {}
    THEN Entry(proj) = NoEntry
    ELSE Entry(proj) = MaxOf(PagesOf(rawFiles, proj))

\* C2, as stated. Checkpoint invariant: outside the window between a raw
\* write and its checkpoint update (a process stopped inside the window is
\* counted as still in it), for any sequence of runs, resume enabled or
\* disabled, last_fetched_page of every project equals the highest page
\* index that has a raw artifact.
C2_CheckpointInvariant ==
    (~InWindow /\ ~everTorn) => \A proj \in Projects : CheckpointMatchesRaw(proj)

\* C2, amended. The same invariant for sequences of runs that all have resume
\* enabled.
C2_CheckpointInvariantResumed ==
    (~InWindow /\ ~everTorn /\ ~everNoResume) =>
        \A proj \in Projects : CheckpointMatchesRaw(proj)

C2_Witness ==
    /\ runs = 2
    /\ ~everTorn
    /\ ~everNoResume
    /\ pc = "paging"
    /\ ckptAtStart # NoEntry
    /\ Cardinality(ckptThisRun) >= 2
    /\ Entry(project) > ckptAtStart

\* C3. A process is stopped between save_raw_response of page p and
\* save_checkpoint of page p; the next scrape_project call of that project
\* with resume enabled re-fetches at most one page whose artifact already
\* exists, and skips no page.
C3_TornWriteResume ==
    (fetchLog # <<>> /\ resume /\ tornAtStart) =>
        /\ Cardinality(Refetched) <= 1
        /\ NoPageSkipped

\* C4. The checkpoint is set to a page only after the raw artifact of that
\* page has been written by the same call: for every page the current call
\* has set the checkpoint to, the call has written the artifact and the
\* artifact is on disk; and while a page's artifact is being awaited
\* (before its write), the checkpoint has not been set to it.
C4_CheckpointAfterRaw ==
    /\ \A p \in ckptThisRun :
        /\ p \in rawThisRun
        /\ <<project, p>> \in rawFiles
    /\ pc = "save_first_raw" => start_page \notin ckptThisRun
    /\ pc = "save_raw" => page \notin ckptThisRun

C4_Witness ==
    /\ pc = "paging"
    /\ Cardinality(ckptThisRun) >= 2
    /\ Entry(project) = page - 1
    /\ <<project, page - 1>> \in rawFiles

\* Every fetch of the current call so far succeeded and was persisted.
NoFetchFailed == \A p \in Fetched : p \in rawThisRun

\* C8. Pagination completeness: a call that starts from no checkpoint, whose
\* first page reports a total T > 0 (no cap below T being configured: that
\* case is C9), with no fetch failure, computes exactly ceil(T / page size)
\* pages, persists exactly the artifacts of pages 0..ceil(T / page size) - 1,
\* ends with the checkpoint at ceil(T / page size) - 1 and returns that page
\* count; total 237 with page size 50 is 5 pages.
C8_PaginationCompleteness ==
    /\ (/\ pc = "sp_returned"
        /\ ckptAtStart = NoEntry
        /\ firstOut.kind = "dict"
        /\ firstOut.total > 0
        /\ cap = NoCap \/ firstOut.total <= cap
        /\ NoFetchFailed) =>
            LET n == CeilDiv(firstOut.total, max_results)
            IN /\ total_pages = n
               /\ rawThisRun = 0..(n - 1)
               /\ fetchLog = [i \in 1..n |-> i - 1]
               /\ Entry(project) = n - 1
               /\ ret = n
    /\ TotalPages(
         TotalIssues([kind |-> "dict", issues |-> "list", total |-> 237],
                     NoCap), 50) = 5

C8_Witness ==
    /\ pc = "sp_returned"
    /\ ckptAtStart = NoEntry
    /\ firstOut.kind = "dict"
    /\ firstOut.total = 3
    /\ max_results = 2
    /\ cap = NoCap
    /\ NoFetchFailed
    /\ rawThisRun = {0, 1}
    /\ Entry(project) = 1

\* The total the first page of the current call reported (0 without 'total').
ReportedTotal == IF firstOut.total = NoTotal THEN 0 ELSE firstOut.total

\* C9. Cap clamping: when a cap C is configured and the total T of the first
\* page is greater than C, total_pages is ceil(C / page size) and not
\* ceil(T / page size); when T <= C or no cap is configured, it is
\* ceil(T / page size). Total 10000 with cap 100 and page size 50 is 2 pages.
C9_CapClamping ==
    /\ Truthy(first_page_data) =>
        IF cap # NoCap /\ ReportedTotal > cap
        THEN total_pages = CeilDiv(cap, max_results)
        ELSE total_pages = CeilDiv(ReportedTotal, max_results)
    /\ TotalPages(
         TotalIssues([kind |-> "dict", issues |-> "list", total |-> 10000],
                     100), 50) = 2

C9_Witness ==
    /\ Truthy(first_page_data)
    /\ cap = 1
    /\ ReportedTotal = 3
    /\ max_results = 1
    /\ total_pages = 1

\* C10. Zero-result partition: when the first page of a call (an envelope
\* with an issues list, or the zero marker without one) reports total = 0,
\* the call obtains that page, persists exactly one artifact (the first
\* page), runs no iteration of the paging loop and returns 1.
C10_ZeroResult ==
    (/\ fetchLog # <<>>
     /\ firstOut.kind = "dict"
     /\ firstOut.issues \in {"list", "absent"}
     /\ firstOut.total = 0) =>
        /\ Truthy(first_page_data)
        /\ fetchLog = <<start_page>>
        /\ pc \notin {"save_raw", "save_ckpt"}
        /\ rawThisRun \subseteq {start_page}
        /\ pc = "sp_returned" => (ret = 1 /\ rawThisRun = {start_page})

C10_Witness ==
    /\ pc = "sp_returned"
    /\ firstOut.kind = "dict"
    /\ firstOut.issues = "absent"
    /\ firstOut.total = 0
    /\ ret = 1
    /\ rawThisRun = {start_page}
    /\ <<project, start_page>> \in rawFiles

(***************************************************************************)
(* Claims about the Scrape Orchestrator (checked under Spec)               *)
(***************************************************************************)

\* The current call of scrape_project returned 0 from its first page.
AbortedOnFirstPage ==
    pc = "sp_returned" /\ Len(fetchLog) = 1 /\ rawThisRun = {}

\* scrape_all goes on after the call of the current project: to the next
\* project, or to `return results` after the last one.
LoopGoesOn ==
    IF idx < Len(projects)
    THEN pc' = "scrape_project" /\ idx' = idx + 1
    ELSE pc' = "returned"

\* A step leaves the checkpoint entry and the artifacts of every project
\* other than the current one as they are.
OtherProjectsUntouched ==
    \A q \in Projects \ {project} :
        /\ StateOrEmpty(ckptFile')[q] = StateOrEmpty(ckptFile)[q]
        /\ PagesOf(rawFiles', q) = PagesOf(rawFiles, q)

\* C11. Partition isolation: while scrape_all runs (no interrupt), the
\* projects before the current one, and only they, have a recorded count; a
\* project whose call aborts on its first page or raises an exception is
\* recorded with 0 pages and scrape_all goes on with the next project in
\* order; the count recorded for a project is what its own call returned;
\* and no step of one project's call changes the checkpoint entry or the
\* artifacts of another project, so another project's call sees the same
\* disk, and reports the same count, whether or not this one failed.
C11_PartitionIsolation ==
    /\ [](pc \notin {"idle", "returned"} =>
            \A j \in 1..Len(projects) :
                (results[projects[j]] # NoEntry) <=> (j < idx))
    /\ [][/\ ((pc = "sp_raised" \/ AbortedOnFirstPage) /\ pc' # "idle") =>
                /\ results' = [results EXCEPT ![project] = 0]
                /\ LoopGoesOn
          /\ (pc = "sp_returned" /\ pc' # "idle") =>
                /\ results' = [results EXCEPT ![project] = ret]
                /\ LoopGoesOn
          /\ OtherProjectsUntouched]_vars

C11_Witness ==
    /\ pc = "returned"
    /\ results[projects[1]] = 0
    /\ results[projects[2]] >= 2
    /\ PagesOf(rawFiles, projects[1]) = {}
    /\ Cardinality(PagesOf(rawFiles, projects[2])) >= 2

(***************************************************************************)
(* C12: checkpoint monotonicity                                            *)
(***************************************************************************)

\* The entry of proj is created by this step.
EntryCreated(proj) ==
    /\ Entry(proj) = NoEntry
    /\ StateOrEmpty(ckptFile')[proj] # NoEntry

\* An entry is created only by the checkpoint write that follows the first
\* page of a call, with the index of that page, whose artifact is on disk.
CreatedOnFirstSuccessfulPage(proj) ==
    /\ pc = "save_first_ckpt"
    /\ proj = project
    /\ Truthy(first_page_data)
    /\ StateOrEmpty(ckptFile')[proj] = start_page
    /\ <<proj, start_page>> \in rawFiles

\* An existing entry is neither lowered nor removed by this step.
EntryKept(proj) ==
    Entry(proj) # NoEntry =>
        /\ StateOrEmpty(ckptFile')[proj] # NoEntry
        /\ StateOrEmpty(ckptFile')[proj] >= Entry(proj)

\* C12, as stated. Checkpoint monotonicity: across any sequence of
\* scrape_project runs of a project (any value of the resume flag, any
\* pattern of page failures), last_fetched_page is created on the first
\* successful page, never decreases afterwards and is never removed.
C12_CheckpointMonotonicity ==
    [][\A proj \in Projects :
            /\ EntryCreated(proj) => CreatedOnFirstSuccessfulPage(proj)
            /\ EntryKept(proj)]_vars

\* C12, amended. The same for the steps of processes that run with resume
\* enabled: a call with resume disabled starts at page 0 and writes 0 over
\* the entry.
C12_CheckpointMonotonicityResumed ==
    [][resume =>
            \A proj \in Projects :
                /\ EntryCreated(proj) => CreatedOnFirstSuccessfulPage(proj)
                /\ EntryKept(proj)]_vars

C12_Witness ==
    /\ pc = "sp_returned"
    /\ resume
    /\ ~everNoResume
    /\ ckptAtStart = 1
    /\ Entry(project) = 2
    /\ ret = 2

(***************************************************************************)
(* C13, C14: which failures the executor retries                           *)
(***************************************************************************)

\* Attempt i (counted from 1) was retried on the exponential schedule: a
\* sleep of min(initial_delay * base^(i-1), max_delay) followed it, or it
\* was the last attempt of the budget and its failure was raised.
RetriedExponentially(i) ==
    IF i <= max_retries
    THEN Len(sleeps) >= i /\ sleeps[i] = ExponentialWait(i - 1)
    ELSE rpc = "raised"

\* Attempt i ended the call by raising although attempts were left.
RaisedAtOnce(i) ==
    /\ i <= max_retries
    /\ i = Len(rLog)
    /\ rpc = "raised"
    /\ Len(sleeps) = i - 1

\* C13. A response with status < 400 whose body is empty or fails to parse
\* as JSON is a retryable failure: the executor retries it up to
\* max_retries times on the exponential schedule of a server error and
\* does not raise it on the first attempt.
C13_MalformedResponseRetried ==
    \A i \in 1..Len(rKind) :
        rKind[i] \in {"empty", "malformed"} =>
            /\ RetriedExponentially(i)
            /\ ~RaisedAtOnce(i)

\* C14. Every response with a 5xx status is retried with exponential
\* backoff, and the only statuses >= 400 that are fatal are the 4xx codes
\* other than 429.
C14_ServerErrorsRetried ==
    \A i \in 1..Len(rKind) :
        rKind[i] = "http_error" =>
            /\ rLog[i] \in 500..599 => RetriedExponentially(i)
            /\ RaisedAtOnce(i) => rLog[i] \in (400..499) \ {429}

(***************************************************************************)
(* C15: a failed first page aborts the call                                *)
(***************************************************************************)

\* The envelope that _make_request returned is one fetch_issues_page
\* rejects: 'issues' is no list, or is absent without total == 0.
InvalidEnvelope(out) ==
    /\ out.kind = "dict"
    /\ \/ out.issues = "other"
       \/ out.issues = "absent" /\ out.total # 0

\* The fetch of the first page of the current call failed: the executor
\* raised (fatal failure or retries exhausted) or the envelope is invalid.
FirstPageFailed ==
    /\ fetchLog # <<>>
    /\ firstOut.kind = "raise" \/ InvalidEnvelope(firstOut)

\* C15. If the fetch of the first page of a project (at the resolved start
\* page) fails for any reason (fatal failure, retry exhaustion, invalid
\* envelope), scrape_project returns 0 having fetched only that page and
\* written nothing, and no exception reaches scrape_all.
C15_FirstPageAbort ==
    FirstPageFailed =>
        /\ pc = "sp_returned"
        /\ ret = 0
        /\ fetchLog = <<start_page>>
        /\ rawThisRun = {}
        /\ ckptThisRun = {}
        /\ PagesOf(rawFiles, project) = rawAtStart
        /\ Entry(project) = ckptAtStart

C15_Witness ==
    /\ pc = "sp_returned"
    /\ firstOut.kind = "raise"
    /\ resume
    /\ start_page = 1
    /\ fetchLog = <<1>>
    /\ ret = 0

(***************************************************************************)
(* C16: a failed page stops the paging loop                                *)
(***************************************************************************)

\* Pages of the paging loop of the current call whose fetch failed: fetched
\* in the loop and not written, the page whose write is still to come (or
\* whose write raised) apart.
FailedPages ==
    LET loopPages == {fetchLog[i] : i \in 2..Len(fetchLog)}
        inFlight == IF pc \in {"save_raw", "sp_raised"}
                    THEN {fetchLog[Len(fetchLog)]}
                    ELSE {}
    IN  (loopPages \ rawThisRun) \ inFlight

\* The page a call with resume enabled starts at, for a checkpoint entry.
ResumePage(entry) == IF entry = NoEntry THEN 0 ELSE entry

\* C16. When the fetch of page k fails in the paging loop, scrape_project
\* stops at once: no page above k is fetched in this call, page k gets no
\* artifact and no checkpoint, the checkpoint stays at k - 1, the last page
\* persisted, and the count of the pages persisted is returned. A call with
\* resume enabled fetches one page after the other from the checkpointed
\* page on, so the next such call comes to page k again.
C16_LoopStopsOnFailure ==
    /\ \A k \in FailedPages :
            /\ pc = "sp_returned"
            /\ k = fetchLog[Len(fetchLog)]
            /\ \A p \in Fetched : p <= k
            /\ k \notin rawThisRun \cup ckptThisRun
            /\ PagesOf(rawFiles, project) = rawAtStart \cup rawThisRun
            /\ k - 1 \in rawThisRun \cap ckptThisRun
            /\ Entry(project) = k - 1
            /\ LoadCheckpoint(ckptFile, project) = k - 1
            /\ ret = Cardinality(rawThisRun)
    /\ (fetchLog # <<>> /\ resume) =>
            \A i \in 1..Len(fetchLog) :
                fetchLog[i] = ResumePage(ckptAtStart) + i - 1

C16_Witness ==
    /\ runs = 2
    /\ resume
    /\ pc = "sp_returned"
    /\ ckptAtStart = 1
    /\ fetchLog = <<1, 2>>
    /\ FailedPages = {2}
    /\ Entry(project) = 1
    /\ ret = 1

(***************************************************************************)
(* C17: an I/O error of a write                                            *)
(***************************************************************************)

\* C17. An I/O error raised by save_raw_response or save_checkpoint leaves
\* scrape_all as a failure of the process: scrape_all neither records the
\* project nor goes on with the next one nor returns.
C17_WriteErrorPropagates ==
    [][pc = "sp_raised" =>
            /\ pc' \notin {"scrape_project", "returned"}
            /\ \A p \in Projects : results'[p] \in {NoEntry, results[p]}]_vars

(***************************************************************************)
(* C18: interrupt                                                          *)
(***************************************************************************)

\* The step in which a KeyboardInterrupt ends the scrape_project call of
\* projects[idx] and the loop of scrape_all.
InterruptStep == InScrapeProject /\ pc' = "returned"

\* results has an entry for exactly the projects before projects[idx].
ResultsOfCompleted(res) ==
    \A j \in 1..Len(projects) : (res[projects[j]] # NoEntry) <=> (j < idx)

C19_FetcherNeverRaises ==
    /\ fetchLog # <<>> =>
            /\ first_page_data.kind \in {"None", "dict"}
            /\ (firstOut.kind = "raise" \/ InvalidEnvelope(firstOut)) =>
                    first_page_data = None
            /\ (firstOut.kind = "dict" /\ ~InvalidEnvelope(firstOut)) =>
                    first_page_data = firstOut
    /\ pc = "sp_raised" =>
            /\ firstOut.kind = "dict"
            /\ Truthy(first_page_data)

C19_Witness ==
    /\ pc = "sp_returned"
    /\ InvalidEnvelope(firstOut)
    /\ firstOut.issues = "absent"
    /\ firstOut.total = 1
    /\ first_page_data = None
    /\ ret = 0

(***************************************************************************)
(* C20: load_checkpoint never fails (checked under SpecStore)              *)
(***************************************************************************)

\* C20. load_checkpoint never fails: it returns the last completed page
\* recorded for the project, and 0 when the checkpoint document is
\* missing, is corrupt (cannot be parsed) or has no entry for the project.
C20_LoadNeverFails ==
    storeOp.op = "load" =>
        /\ storeOp.result # Raises
        /\ storeOp.result =
                IF /\ storeOp.before.kind = "json"
                   /\ storeOp.before.state[storeOp.project] # NoEntry
                THEN storeOp.before.state[storeOp.project]
                ELSE 0

(***************************************************************************)
(* C21: save_checkpoint and the entries of the other projects              *)
(***************************************************************************)

\* The entry of proj that is written in a document, readable or not.
WrittenEntry(file, proj) ==
    IF file.kind = "missing" THEN NoEntry ELSE file.state[proj]

\* C21. save_checkpoint(p, page) changes the entry of p only: the entry of
\* every other project in the document after the save is its entry before
\* the save, whatever the document was before, one that cannot be read
\* included.
C21_SaveKeepsOtherEntries ==
    storeOp.op = "save" =>
        \A q \in Projects \ {storeOp.project} :
            WrittenEntry(ckptFile, q) = WrittenEntry(storeOp.before, q)

(***************************************************************************)
(* C22: what scrape_project returns                                        *)
(***************************************************************************)

\* C22. The value scrape_project returns is the number of raw artifacts the
\* call wrote (the first page and every page of the loop whose fetch
\* succeeded), whatever the start page, the total and the page that fails
\* first; each of these pages is checkpointed as well.
C22_ReturnCountsArtifacts ==
    pc = "sp_returned" =>
        /\ ret = Cardinality(rawThisRun)
        /\ rawThisRun \subseteq Fetched
        /\ ckptThisRun = rawThisRun
        /\ PagesOf(rawFiles, project) = rawAtStart \cup rawThisRun

C22_Witness ==
    /\ pc = "sp_returned"
    /\ max_results = 1
    /\ fetchLog = <<0, 1, 2>>
    /\ FailedPages = {2}
    /\ rawThisRun = {0, 1}
    /\ ret = 2

(***************************************************************************)
(* C23: the executor is the only place that retries (checked under SpecRun)*)
(***************************************************************************)

\* Transport calls made so far for the fetch_issues_page call in flight.
TransportCalls == IF rpc = "call" THEN attempt ELSE attempt + 1

\* No page index occurs twice among the fetch_issues_page calls of the
\* current scrape_project call.
EachPageOnce ==
    \A i, j \in 1..Len(fetchLog) : i # j => fetchLog[i] # fetchLog[j]

\* C23. The Retrying Executor is the sole retry boundary: within one
\* scrape_project call each page index is passed to fetch_issues_page at
\* most once, and one fetch_issues_page call makes at most max_retries + 1
\* Transport calls, so the Transport is called at most max_retries + 1
\* times for a page.
C23_SoleRetryBoundary ==
    /\ EachPageOnce
    /\ TransportCalls <= max_retries + 1
    /\ pc \notin {"fetch_first", "fetch_page"} => TransportCalls = 0

C23_Witness ==
    /\ pc = "fetch_page"
    /\ rpc = "raised"
    /\ TransportCalls = max_retries + 1
    /\ fetchLog = <<1, 2>>

(***************************************************************************)
(* C24: a parsed body that is no dict (checked under SpecRetry)            *)
(***************************************************************************)

\* C24. A response body that parses as JSON and is not a dict is a fatal
\* failure: the executor raises after that Transport call with no sleep and
\* no retry for it; when it is the first response, after one Transport
\* call and zero sleeps.
C24_NonDictFatal ==
    \A i \in 1..Len(rKind) :
        rKind[i] = "nondict" =>
            /\ i = Len(rKind)
            /\ rpc = "raised"
            /\ Len(sleeps) = i - 1
            /\ attempt = i - 1
            /\ rLog[i] \notin retryable_errors

C24_Witness ==
    /\ rKind = <<"nondict">>
    /\ rpc = "raised"
    /\ sleeps = <<>>
    /\ attempt = 0

(***************************************************************************)
(* C25: which envelopes the Page Fetcher accepts                           *)
(***************************************************************************)

\* The envelope has an 'issues' entry that is a list, or has no 'issues'
\* entry and has total equal to 0.
AcceptedShape(out) ==
    \/ out.issues = "list"
    \/ out.issues = "absent" /\ out.total = 0

\* C25. When _make_request returns a dict, fetch_issues_page returns that
\* dict if and only if it has an 'issues' entry that is a list, or has no
\* 'issues' entry and total equal to 0; for every other shape it returns
\* None and raises nothing.
C25_EnvelopeShapes ==
    (fetchLog # <<>> /\ firstOut.kind = "dict") =>
        /\ AcceptedShape(firstOut) <=> first_page_data = firstOut
        /\ ~AcceptedShape(firstOut) <=> first_page_data = None
        /\ ~AcceptedShape(firstOut) => (pc = "sp_returned" /\ ret = 0)

C25_Witness ==
    /\ pc = "sp_returned"
    /\ firstOut.kind = "dict"
    /\ firstOut.issues = "other"
    /\ firstOut.total = 0
    /\ first_page_data = None

(***************************************************************************)
(* C26: the start page and the offsets of the requests                     *)
(***************************************************************************)

\* C26. The first page a scrape_project call fetches has the index that
\* load_checkpoint gives for the project when resume is enabled, and index
\* 0 when resume is disabled, whatever the checkpoint holds; every request
\* of the call has startAt = page index * page size and maxResults = the
\* one page size of the scraper.
C26_StartPageAndOffsets ==
    fetchLog # <<>> =>
        /\ fetchLog[1] = start_page
        /\ start_page = IF resume THEN ResumePage(ckptAtStart) ELSE 0
        /\ Len(requestLog) = Len(fetchLog)
        /\ \A i \in 1..Len(fetchLog) :
                /\ requestLog[i].startAt = fetchLog[i] * max_results
                /\ requestLog[i].maxResults = max_results

C26_Witness ==
    /\ ~resume
    /\ ckptAtStart = 1
    /\ max_results = 2
    /\ fetchLog = <<0, 1>>
    /\ requestLog[2] = [startAt |-> 2, maxResults |-> 2]

(***************************************************************************)
(* C27: no gaps below the checkpoint                                       *)
(***************************************************************************)

\* C27. No gaps: from empty raw storage and no checkpoint document, after
\* any sequence of scrape_project calls (resume enabled or disabled, page
\* failures, interrupts and kills at any step), every project that has a
\* checkpoint entry c has a raw artifact for each page 0..c.
C27_NoGaps ==
    \A proj \in Projects :
        Entry(proj) # NoEntry =>
            \A p \in 0..Entry(proj) : <<proj, p>> \in rawFiles

C27_Witness ==
    /\ runs = 2
    /\ everTorn
    /\ everNoResume
    /\ Entry(projects[1]) = 2
    /\ PagesOf(rawFiles, projects[1]) = 0..2
    /\ pc = "returned"

(***************************************************************************)
(* C28: an aborted call writes nothing                                     *)
(***************************************************************************)

\* The step in which scrape_project returns because its first page failed.
AbortStep == pc = "scrape_project" /\ pc' = "sp_returned"

\* C28. When scrape_project aborts on its first page it writes nothing:
\* the set of raw artifacts and the whole checkpoint document are after
\* the call what they were before it.
C28_AbortWritesNothing ==
    [][AbortStep =>
            /\ rawFiles' = rawFiles
            /\ ckptFile' = ckptFile
            /\ ~Truthy(first_page_data')
            /\ ret' = 0]_vars

C28_Witness ==
    /\ pc = "sp_returned"
    /\ ~Truthy(first_page_data)
    /\ fetchLog = <<1>>
    /\ ckptAtStart = 1
    /\ Entry(project) = 1
    /\ PagesOf(rawFiles, project) = {0, 1}
    /\ ret = 0

(***************************************************************************)
(* C29: termination (checked under SpecRunLive)                            *)
(***************************************************************************)

\* max(1, total pages - start page)
FetchBound == IF total_pages - start_page > 1 THEN total_pages - start_page ELSE 1

\* C29. Termination: when every Transport call comes back and there is no
\* interrupt, every scrape_all call returns in the end, whatever the
\* pattern of retryable and fatal failures; it makes at most
\* max_retries + 1 Transport calls for a page and at most
\* max(1, total pages - start page) page fetches for a project.
C29_Termination ==
    /\ [](TransportCalls <= max_retries + 1)
    /\ [](Len(fetchLog) <= FetchBound)
    /\ (pc = "scrape_project" /\ idx = 1) ~> (pc = "returned")

C29_Witness ==
    /\ pc = "returned"
    /\ resume
    /\ results[projects[1]] = 2
    /\ results[projects[2]] = 0
    /\ PagesOf(rawFiles, projects[1]) = 0..2

(***************************************************************************)
(* C30: a start page at or past the end                                    *)
(***************************************************************************)

\* The first page of the current call was obtained and the start page is
\* not below the total page count computed from it.
StartAtOrPastEnd ==
    /\ fetchLog # <<>>
    /\ Truthy(first_page_data)
    /\ start_page >= total_pages

\* C30. When the start page is greater than or equal to the total page
\* count computed in the call (a fully scraped project resumed again, or a
\* cap or total smaller than before), scrape_project still fetches and
\* persists exactly the page at the start index, runs no iteration of the
\* paging loop, leaves the checkpoint at the start index and returns 1.
C30_StartPastEnd ==
    StartAtOrPastEnd =>
        /\ fetchLog = <<start_page>>
        /\ pc \notin {"save_raw", "save_ckpt"}
        /\ rawThisRun \subseteq {start_page}
        /\ ckptThisRun \subseteq {start_page}
        /\ pc \in {"paging", "sp_returned"} =>
                /\ rawThisRun = {start_page}
                /\ <<project, start_page>> \in rawFiles
                /\ Entry(project) = start_page
        /\ pc = "sp_returned" => ret = 1

C30_Witness ==
    /\ pc = "sp_returned"
    /\ resume
    /\ start_page = 2
    /\ total_pages = 1
    /\ rawThisRun = {2}
    /\ Entry(project) = 2
    /\ ret = 1

====
